---- MODULE Spec2Model ----
(***************************************************************************)
(* Model of the two assemblers of Week_3/Part_1/genome_assembly_src:       *)
(*   DBGAssembler (dbg_assembler.py) with write_gfa (graph_utils.py) and   *)
(*   write_fasta (fastq_parser.py), and OLCAssembler (olc_assembler_old.py)*)
(* A Python str is a sequence of one-character strings; a dict is a        *)
(* function whose DOMAIN is its key set, with its key order kept in a      *)
(* separate sequence where the code depends on it.                         *)
(***************************************************************************)
EXTENDS Integers, Sequences, FiniteSets, TLC

\* ------------------------------------------------------------------------
\* Bounds of the model
\* ------------------------------------------------------------------------
MaxReads == 2        \* reads per build_graph call
MaxK == 3            \* largest k-mer size of the enumerated configurations
MaxOLCReads == 3     \* reads per OLC assembly
MaxMinOverlap == 2   \* largest min_overlap of the enumerated configurations

\* ------------------------------------------------------------------------
\* Python built-ins used by the code
\* ------------------------------------------------------------------------
Range(s) == {s[i] : i \in 1..Len(s)}

Contains(s, x) == \E i \in 1..Len(s) : s[i] = x

\* A slice bound as Python normalises it for a sequence of length n.
PyIdx(x, n) ==
    IF x < 0 THEN (IF x + n < 0 THEN 0 ELSE x + n)
    ELSE (IF x > n THEN n ELSE x)

\* s[a:b]
PySlice(s, a, b) ==
    LET lo == PyIdx(a, Len(s))
        hi == PyIdx(b, Len(s))
    IN IF lo < hi THEN SubSeq(s, lo + 1, hi) ELSE <<>>

\* s[a:]
PyFrom(s, a) == PySlice(s, a, Len(s))

\* s[:b]
PyTo(s, b) == PySlice(s, 0, b)

\* d[key] = val on a dict
Put(d, key, val) == [x \in (DOMAIN d) \cup {key} |-> IF x = key THEN val ELSE d[x]]

\* d[key] on a defaultdict: the value read
DGet(d, key, default) == IF key \in DOMAIN d THEN d[key] ELSE default

\* d[key] on a defaultdict: the dict after the read (a missing key is inserted)
DTouch(d, key, default) == IF key \in DOMAIN d THEN d ELSE Put(d, key, default)

EmptyDict == [x \in {} |-> 0]

Flatten(ss) ==
    LET RECURSIVE F(_)
        F(i) == IF i > Len(ss) THEN <<>> ELSE ss[i] \o F(i + 1)
    IN F(1)

\* ------------------------------------------------------------------------
\* Inputs of the DBG assembler
\* ------------------------------------------------------------------------
ACGT == {"A", "C", "G", "T"}

\* Sequences of the reads offered to build_graph ("N" is a non-ACGT base).
DBGPool ==
    { <<"A", "C">>,
      <<"A", "C", "A", "C">>,
      <<"A", "C", "G", "T">>,
      <<"A", "C", "N", "C", "G", "A">> }

ReadLists(pool, n) == UNION {[1..m -> pool] : m \in 0..n}

DBGReadLists == ReadLists(DBGPool, MaxReads)

KValues == 2..MaxK

\* Scenario A of the specification
ScenarioA ==
    [k |-> 4,
     reads |-> << <<"A", "C", "G", "T", "A", "C">>,
                  <<"G", "T", "A", "C", "T", "G">>,
                  <<"A", "C", "T", "G", "A", "A">> >>]

\* Two reads that merge: with k = 5 the node GTAC gets an incoming edge from
\* each of them.
MergeInput ==
    [k |-> 5,
     reads |-> << <<"A", "C", "G", "T", "A", "C", "T">>,
                  <<"G", "G", "T", "A", "C">> >>]

\* The read lists offered to an assembler of k-mer size kk: those of Scenario A,
\* whole or one read at a time, when kk is its k-mer size, and the merging
\* reads when kk is theirs.
DBGReadListsOf(kk) ==
    IF kk = ScenarioA.k
    THEN {ScenarioA.reads} \cup ReadLists(Range(ScenarioA.reads), 1)
    ELSE IF kk = MergeInput.k THEN {MergeInput.reads}
    ELSE DBGReadLists

VARIABLES
    k,              \* DBGAssembler.k
    graph_keys,     \* keys of DBGAssembler.graph in insertion order
    graph,          \* DBGAssembler.graph: node -> list of successors
    in_degree,      \* DBGAssembler.in_degree
    out_degree,     \* DBGAssembler.out_degree
    all_reads,      \* every read sequence passed to build_graph so far
    dpc,            \* position inside the DBG assembler
    assembling,     \* TRUE while assemble() drives the calls
    start_nodes,    \* find_contigs: start_nodes
    si,             \* find_contigs: index of the current start (0-based)
    visited,        \* find_contigs: visited
    path,           \* find_contigs: path
    chain,          \* the nodes walked by the current path
    current,        \* find_contigs: current
    contigs,        \* find_contigs: contigs (returned when dpc leaves find_contigs)
    chains,         \* node chain walked for each emitted contig
    walks,          \* find_contigs: the node chain of every finished walk, in order
    fasta,          \* records written by write_fasta
    gfa,            \* lines written by write_gfa
    err,            \* exception raised, "none" if none
    min_overlap,    \* OLCAssembler.min_overlap
    reads,          \* assemble: reads, a list of <<header, sequence>>
    read_dict,      \* assemble: read_dict
    onodes,         \* nodes of OLCAssembler.graph in insertion order
    oadj,           \* OLCAssembler.graph: node -> successors in insertion order
    weight,         \* OLCAssembler.graph: <<u, v>> -> the edge's weight
    opc,            \* position inside the OLC assembler
    max_reads,      \* find_overlaps: max_reads
    is_long_read,   \* find_overlaps: is_long_read
    oi,             \* find_overlaps: i of the outer loop (0-based)
    ostarts,        \* find_paths: start_nodes
    osi,            \* find_paths: index of the current start (0-based)
    paths,          \* find_paths: paths
    visited_edges,  \* find_paths: visited_edges
    opath,          \* _build_greedy_paths: path
    ocurrent,       \* _build_greedy_paths: current
    ocontigs,       \* generate_consensus: contigs
    ofasta,         \* records written by write_fasta for the OLC contigs
    evaluated,      \* find_overlaps: the positions j paired with i in the last outer iteration
    add_calls,      \* find_overlaps: the add_edge calls made, as <<u, v, weight>>, in order
    selected        \* find_paths: the edges selected for traversal, in order

dbgvars == <<k, graph_keys, graph, in_degree, out_degree, all_reads, dpc,
             assembling, start_nodes, si, visited, path, chain, current,
             contigs, chains, walks, fasta, gfa>>

olcvars == <<min_overlap, reads, read_dict, onodes, oadj, weight, opc, max_reads,
             is_long_read, oi, ostarts, osi, paths, visited_edges, opath, ocurrent,
             ocontigs, ofasta, evaluated, add_calls, selected>>

vars == <<dbgvars, olcvars, err>>

\* ------------------------------------------------------------------------
\* DBGAssembler.build_graph
\* ------------------------------------------------------------------------
\* The graph with its degree maps, as one record.
G(keys, g, ind, outd) == [keys |-> keys, g |-> g, ind |-> ind, outd |-> outd]

\* A slip of lines 38-41: the edge is appended and counted without the
\* membership test.
InsertEdgeUnchecked(st, prefix, suffix) ==
    G(IF prefix \in DOMAIN st.g THEN st.keys ELSE Append(st.keys, prefix),
      Put(st.g, prefix, Append(DGet(st.g, prefix, <<>>), suffix)),
      Put(st.ind, suffix, DGet(st.ind, suffix, 0) + 1),
      Put(st.outd, prefix, DGet(st.outd, prefix, 0) + 1))

\* Lines 38-41: the edge prefix -> suffix is added unless it exists.
InsertEdge(st, prefix, suffix) ==
    LET succs == DGet(st.g, prefix, <<>>)
        keys1 == IF prefix \in DOMAIN st.g THEN st.keys ELSE Append(st.keys, prefix)
    IN IF Contains(succs, suffix)
       THEN G(keys1, DTouch(st.g, prefix, <<>>), st.ind, st.outd)
       ELSE G(keys1,
              Put(st.g, prefix, Append(succs, suffix)),
              Put(st.ind, suffix, DGet(st.ind, suffix, 0) + 1),
              Put(st.outd, prefix, DGet(st.outd, prefix, 0) + 1))

\* A slip of lines 31-32: the window is used whatever its characters.
AddKmerUnfiltered(st, kmer) == InsertEdge(st, PyTo(kmer, -1), PyFrom(kmer, 1))

\* Lines 29-41: one window of a read.
AddKmer(st, kmer) ==
    IF \E c \in Range(kmer) : c \notin ACGT THEN st
    ELSE InsertEdge(st, PyTo(kmer, -1), PyFrom(kmer, 1))

\* A slip of lines 25-32: a read with a base outside A, C, G, T is skipped
\* whole.
AddReadCleanOnly(st, seq, kk) ==
    IF Len(seq) < kk \/ \E c \in Range(seq) : c \notin ACGT THEN st
    ELSE
        LET RECURSIVE W(_, _)
            W(s, i) == IF i >= Len(seq) - kk + 1 THEN s
                       ELSE W(AddKmer(s, PySlice(seq, i, i + kk)), i + 1)
        IN W(st, 0)

\* Lines 25-41: one read.
AddRead(st, seq, kk) ==
    IF Len(seq) < kk THEN st
    ELSE
        LET RECURSIVE W(_, _)
            W(s, i) == IF i >= Len(seq) - kk + 1 THEN s
                       ELSE W(AddKmer(s, PySlice(seq, i, i + kk)), i + 1)
        IN W(st, 0)

\* Lines 24-44: all reads of one call.
build_graph(st, rs, kk) ==
    LET RECURSIVE R(_, _)
        R(s, i) == IF i > Len(rs) THEN s ELSE R(AddRead(s, rs[i], kk), i + 1)
    IN R(st, 1)

\* ------------------------------------------------------------------------
\* write_fasta and write_gfa
\* ------------------------------------------------------------------------
\* An output file: who wrote it last ("none" while it does not exist) and its lines.
File(by, lines) == [by |-> by, lines |-> lines]

NoFile == File("none", <<>>)

\* fastq_parser.py lines 21-23
write_fasta(cs) == [i \in 1..Len(cs) |-> <<">contig_", i, cs[i]>>]

\* A slip of line 23: the node length is written instead of the overlap.
GfaLinksFullLength(g, node) ==
    [j \in 1..Len(g[node]) |-> <<"L", node, "+", g[node][j], "+", Len(node), "M">>]

\* Lines 20-23: the link lines of one node.
GfaLinksOf(g, node) == [j \in 1..Len(g[node]) |-> <<"L", node, "+", g[node][j], "+", Len(node) - 1, "M">>]

\* Lines 10-23
write_gfa(keys, g) ==
    << <<"H", "VN:Z:1.0">> >>
    \o [i \in 1..Len(keys) |-> <<"S", keys[i], keys[i]>>]
    \o Flatten([i \in 1..Len(keys) |-> GfaLinksOf(g, keys[i])])

\* ------------------------------------------------------------------------
\* State after DBGAssembler.__init__
\* ------------------------------------------------------------------------
DBGStart(ks) ==
    /\ k \in ks
    /\ graph_keys = <<>>
    /\ graph = EmptyDict
    /\ in_degree = EmptyDict
    /\ out_degree = EmptyDict
    /\ all_reads = {}
    /\ dpc = "ready"
    /\ assembling = FALSE
    /\ start_nodes = <<>>
    /\ si = 0
    /\ visited = {}
    /\ path = <<>>
    /\ chain = <<>>
    /\ current = <<>>
    /\ contigs = <<>>
    /\ chains = <<>>
    /\ walks = <<>>
    /\ fasta = NoFile
    /\ gfa = NoFile

\* ------------------------------------------------------------------------
\* Operations of the DBG assembler
\* ------------------------------------------------------------------------
DoBuild(rs) ==
    LET st == build_graph(G(graph_keys, graph, in_degree, out_degree), rs, k)
    IN /\ graph_keys' = st.keys
       /\ graph' = st.g
       /\ in_degree' = st.ind
       /\ out_degree' = st.outd
       /\ all_reads' = all_reads \cup Range(rs)

\* A call of build_graph(reads) from outside assemble().
BuildGraph ==
    /\ dpc = "ready"
    /\ \E rs \in DBGReadListsOf(k) : DoBuild(rs)
    /\ UNCHANGED <<k, dpc, assembling, start_nodes, si, visited, path, chain, current,
                   contigs, chains, walks, fasta, gfa, err, olcvars>>

\* Lines 56-57: the test of the first loop.
Imbalanced(ind, outd, node) ==
    /\ DGet(outd, node, 0) > 0
    /\ \/ DGet(ind, node, 0) # DGet(outd, node, 0)
       \/ DGet(ind, node, 0) = 0

\* A slip of lines 62-65: the loop has no break, every key with outgoing
\* edges becomes a start.
AllWithOut(keys, outd) ==
    LET test(node) == DGet(outd, node, 0) > 0
    IN SelectSeq(keys, test)

\* Lines 61-65: the first key with outgoing edges, as a list of at most one.
FirstWithOut(keys, outd) ==
    LET idx == {i \in 1..Len(keys) : DGet(outd, keys[i], 0) > 0}
    IN IF idx = {} THEN <<>>
       ELSE << keys[CHOOSE i \in idx : \A j \in idx : i <= j] >>

\* Lines 54-65: start_nodes.
SelectStarts(keys, ind, outd) ==
    LET test(node) == Imbalanced(ind, outd, node)
        first == SelectSeq(keys, test)
    IN IF first # <<>> THEN first ELSE FirstWithOut(keys, outd)

\* Lines 56 and 63 read out_degree[node] for every key of the graph, and
\* lines 56-57 read in_degree[node] when out_degree[node] > 0: reading a
\* defaultdict inserts the key.
TouchOut(keys, outd) == [n \in (DOMAIN outd) \cup Range(keys) |-> DGet(outd, n, 0)]

TouchIn(keys, ind, outd) ==
    [n \in (DOMAIN ind) \cup {m \in Range(keys) : DGet(outd, m, 0) > 0} |-> DGet(ind, n, 0)]

\* Lines 50-65: find_contigs on the graph st, up to the loop over the starts.
FindContigsBegin(st, asm) ==
    /\ graph_keys' = st.keys
    /\ graph' = st.g
    /\ in_degree' = TouchIn(st.keys, st.ind, st.outd)
    /\ out_degree' = TouchOut(st.keys, st.outd)
    /\ start_nodes' = SelectStarts(st.keys, st.ind, st.outd)
    /\ contigs' = <<>>
    /\ chains' = <<>>
    /\ walks' = <<>>
    /\ visited' = {}
    /\ si' = 0
    /\ path' = <<>>
    /\ chain' = <<>>
    /\ current' = <<>>
    /\ dpc' = "starts"
    /\ assembling' = asm

\* A call of find_contigs() from outside assemble().
FindContigs ==
    /\ dpc = "ready"
    /\ FindContigsBegin(G(graph_keys, graph, in_degree, out_degree), FALSE)
    /\ UNCHANGED <<k, all_reads, fasta, gfa, err, olcvars>>

\* assemble(), lines 104-111: build_graph(reads), then find_contigs() begins.
Assemble ==
    /\ dpc = "ready"
    /\ \E rs \in DBGReadListsOf(k) :
          /\ FindContigsBegin(
                 build_graph(G(graph_keys, graph, in_degree, out_degree), rs, k), TRUE)
          /\ all_reads' = all_reads \cup Range(rs)
    /\ UNCHANGED <<k, fasta, gfa, err, olcvars>>

\* A slip of lines 68-69: no start is taken for visited.
NeverVisited(start, vis) == FALSE

\* Line 68: start in visited.
AlreadyVisited(start, vis) == start \in vis

\* Lines 67-73: the head of the loop over start_nodes.
NextStart ==
    /\ dpc = "starts"
    /\ si < Len(start_nodes)
    /\ LET start == start_nodes[si + 1]
       IN IF AlreadyVisited(start, visited)
          THEN /\ si' = si + 1
               /\ UNCHANGED <<path, chain, current, dpc>>
          ELSE /\ path' = <<start>>
               /\ chain' = <<start>>
               /\ current' = start
               /\ dpc' = "walk"
               /\ UNCHANGED si
    /\ UNCHANGED <<k, graph_keys, graph, in_degree, out_degree, all_reads, assembling,
                   start_nodes, visited, contigs, chains, walks, fasta, gfa, err, olcvars>>

\* A slip of line 92: the contig is kept whatever its length.
EmitAlways(cs, p, kk) == Append(cs, Flatten(p))

\* Lines 90-93: the contig of a finished walk is kept when it is long enough.
Emit(cs, p, kk) == IF Len(Flatten(p)) >= kk THEN Append(cs, Flatten(p)) ELSE cs

\* A slip of line 81: the successor is required to have no incoming edge.
CanStepNoIncoming(g, ind, vis, cur) ==
    LET next_nodes == DGet(g, cur, <<>>)
    IN /\ Len(next_nodes) = 1
       /\ DGet(ind, next_nodes[1], 0) = 0
       /\ next_nodes[1] \notin vis

\* Lines 80-82: the walk goes on from current to its successor.
CanStep(g, ind, vis, cur) ==
    LET next_nodes == DGet(g, cur, <<>>)
    IN /\ Len(next_nodes) = 1
       /\ DGet(ind, next_nodes[1], 0) = 1
       /\ next_nodes[1] \notin vis

\* A slip of line 76: the current node is not recorded.
NotMarked(vis, cur) == vis

\* Line 76: visited.add(current).
MarkVisited(vis, cur) == vis \cup {cur}

\* A slip of line 83: the whole successor is appended.
AppendWhole(p, next_node) == Append(p, next_node)

\* Line 83: path.append(next_node[-1]).
AppendLast(p, next_node) == Append(p, PyFrom(next_node, -1))

\* Lines 75-93: one iteration of the while loop; the last one also emits.
Walk ==
    /\ dpc = "walk"
    /\ visited' = MarkVisited(visited, current)
    /\ graph' = DTouch(graph, current, <<>>)
    /\ graph_keys' = IF current \in DOMAIN graph THEN graph_keys
                     ELSE Append(graph_keys, current)
    /\ IF CanStep(graph, in_degree, MarkVisited(visited, current), current)
       THEN LET next_node == graph[current][1]
            IN IF next_node = <<>>
               THEN /\ err' = "IndexError"
                    /\ dpc' = "failed"
                    /\ UNCHANGED <<path, chain, current, contigs, chains, walks, si>>
               ELSE /\ path' = AppendLast(path, next_node)
                    /\ chain' = Append(chain, next_node)
                    /\ current' = next_node
                    /\ UNCHANGED <<dpc, contigs, chains, walks, si, err>>
       ELSE /\ contigs' = Emit(contigs, path, k)
            /\ chains' = IF Len(Flatten(path)) >= k THEN Append(chains, chain) ELSE chains
            /\ walks' = Append(walks, chain)
            /\ si' = si + 1
            /\ dpc' = "starts"
            /\ UNCHANGED <<path, chain, current, err>>
    /\ UNCHANGED <<k, in_degree, out_degree, all_reads, assembling, start_nodes,
                   fasta, gfa, olcvars>>

\* The locals of find_contigs go out of scope when it returns.
LocalsDropped ==
    /\ start_nodes' = <<>>
    /\ walks' = <<>>
    /\ si' = 0
    /\ visited' = {}
    /\ path' = <<>>
    /\ chain' = <<>>
    /\ current' = <<>>

\* Lines 95-96: find_contigs() returns to an outside caller.
FindContigsReturn ==
    /\ dpc = "starts"
    /\ si = Len(start_nodes)
    /\ ~assembling
    /\ dpc' = "ready"
    /\ LocalsDropped
    /\ UNCHANGED <<k, graph_keys, graph, in_degree, out_degree, all_reads, assembling,
                   contigs, chains, fasta, gfa, err, olcvars>>

\* assemble(), lines 111-125: find_contigs() returns, then write_fasta and write_gfa.
AssembleFinish ==
    /\ dpc = "starts"
    /\ si = Len(start_nodes)
    /\ assembling
    /\ fasta' = File("assemble", write_fasta(contigs))
    /\ gfa' = File("assemble", write_gfa(graph_keys, graph))
    /\ assembling' = FALSE
    /\ dpc' = "ready"
    /\ LocalsDropped
    /\ UNCHANGED <<k, graph_keys, graph, in_degree, out_degree, all_reads,
                   contigs, chains, err, olcvars>>

\* A call of write_gfa(self.graph, ...) from outside assemble().
WriteGfa ==
    /\ dpc = "ready"
    /\ gfa' = File("write_gfa", write_gfa(graph_keys, graph))
    /\ UNCHANGED <<k, graph_keys, graph, in_degree, out_degree, all_reads, dpc,
                   assembling, start_nodes, si, visited, path, chain, current,
                   contigs, chains, walks, fasta, err, olcvars>>

NextDBG ==
    \/ BuildGraph
    \/ FindContigs
    \/ Assemble
    \/ NextStart
    \/ Walk
    \/ FindContigsReturn
    \/ AssembleFinish
    \/ WriteGfa

\* ------------------------------------------------------------------------
\* Inputs of the OLC assembler
\* ------------------------------------------------------------------------
\* Sequences of the short reads offered to find_overlaps.
OLCPool ==
    { <<"A", "C">>,
      <<"C", "A">>,
      <<"C", "C">>,
      <<"A", "A", "C", "C">>,
      <<"C", "C", "A">> }

HeaderNames == <<"r1", "r2", "r3", "r4", "r5", "r6">>

\* Read records (header, sequence) for a list of sequences; with dup the last
\* record repeats the identifier of the first one.
MkReads(seqs, dup) ==
    [i \in 1..Len(seqs) |->
        <<IF dup /\ i = Len(seqs) /\ i > 1 THEN HeaderNames[1] ELSE HeaderNames[i], seqs[i]>>]

Run(c, n) == [i \in 1..n |-> c]

\* Long reads (more than 1000 bases on average).
LongA == Run("A", 1000) \o <<"G">> \o Run("C", 12)
LongB == <<"G">> \o Run("C", 12) \o Run("T", 1000)
LongC == Run("A", 1000) \o Run("G", 25)
LongD == Run("G", 25) \o Run("T", 1000)

\* With LongA, exactly 1000 bases on average.
LongE == <<"G">> \o Run("C", 12) \o Run("T", 974)

LongReadLists ==
    { <<LongA, LongB>>, <<LongC, LongD>>, <<LongA, LongB, LongD>>, <<LongA, LongE>>,
      <<LongC, LongD, LongA, LongB>> }

\* Scenario B of the specification
ScenarioB ==
    [min_overlap |-> 4,
     reads |-> MkReads(<< <<"A", "A", "A", "A", "C", "C", "C", "C">>,
                          <<"C", "C", "C", "C", "G", "G", "G", "G">> >>, FALSE)]

\* Six reads no two of which overlap by three bases: no path is found.
FallbackInput ==
    [min_overlap |-> 3,
     reads |-> MkReads(<< <<"A", "C">>, <<"A", "A", "C", "C">>, <<"C", "A">>,
                          <<"C", "C", "A">>, <<"C", "C">>, <<"A", "A">> >>, FALSE)]

OLCInputs ==
    {MkReads(seqs, dup) : seqs \in ReadLists(OLCPool, MaxOLCReads), dup \in BOOLEAN}
    \cup {MkReads(seqs, FALSE) : seqs \in LongReadLists}

MinOverlaps == 1..MaxMinOverlap

\* The identifier of the read at position i (1-based) of a large input.
Header(i) == "r" \o ToString(i)

\* A large input: n reads, the second and the last of which ("ACA") overlap the
\* first ("AAC") by two bases, the others being single bases.
LargeReads(n) ==
    [i \in 1..n |->
        <<Header(i),
          IF i = 1 THEN <<"A", "A", "C">>
          ELSE IF i = 2 \/ i = n THEN <<"A", "C", "A">>
          ELSE <<"A">> >>]

\* 101 reads of 1001 bases and more on average, the first 100 of which are
\* short: the last read alone is long.
WindowReads ==
    [i \in 1..101 |->
        <<Header(i), IF i = 101 THEN Run("T", 101000) ELSE LargeReads(100)[i][2]>>]

\* Inputs around the read count at which the subsampling rule changes, and
\* one longer than the window over which the mean length is taken.
LargeInputs ==
    {[min_overlap |-> 2, reads |-> LargeReads(n)] : n \in {499, 500, 501}}
    \cup {[min_overlap |-> 2, reads |-> WindowReads]}

\* ------------------------------------------------------------------------
\* OLCAssembler.find_overlaps
\* ------------------------------------------------------------------------
SmallCount == 500       \* line 23: read_count < 500
SmallCap == 2000        \* line 23: min(read_count, 2000)
LargeCap == 500         \* line 23: else 500
MeanWindow == 100       \* line 32: working_reads[:100]
LongReadMean == 1000    \* line 33: avg_len > 1000
LongFactor == 3         \* line 36: self.min_overlap * 3
LongStep == 10          \* line 49: step = 10 if is_long_read

Min(a, b) == IF a < b THEN a ELSE b

Max(a, b) == IF a > b THEN a ELSE b

Sum(xs) ==
    LET RECURSIVE S(_)
        S(i) == IF i > Len(xs) THEN 0 ELSE xs[i] + S(i + 1)
    IN S(1)

\* A mean computed as sum / len: it raises on an empty list.
mean_raising(xs) ==
    IF xs = <<>> THEN [kind |-> "raise", num |-> 0, den |-> 0]
    ELSE [kind |-> "number", num |-> Sum(xs), den |-> Len(xs)]

\* np.mean: nan (with a warning, no exception) for an empty list.
np_mean(xs) ==
    IF xs = <<>> THEN [kind |-> "nan", num |-> 0, den |-> 0]
    ELSE [kind |-> "number", num |-> Sum(xs), den |-> Len(xs)]

\* mean > c; every comparison with nan is False.
MeanGt(m, c) == m.kind = "number" /\ m.num > c * m.den

\* A slip of line 23: 500 reads or more are all kept.
MaxReadsUncapped(read_count) ==
    IF read_count < SmallCount THEN Min(read_count, SmallCap) ELSE read_count

\* Line 23
MaxReadsOf(read_count) ==
    IF read_count < SmallCount THEN Min(read_count, SmallCap) ELSE LargeCap

\* Line 29: reads[:max_reads]
WorkingReads(rs, mr) == PyTo(rs, mr)

\* Line 32
AvgLen(working) ==
    np_mean([i \in 1..Len(PyTo(working, MeanWindow)) |-> Len(working[i][2])])

\* Line 36
EffectiveMinOverlap(mo, long) == IF long THEN mo * LongFactor ELSE mo

\* Line 49
StepOf(long) == IF long THEN LongStep ELSE 1

\* A slip of line 51: the prefix of read i is compared, not its suffix.
MatchesPrefixes(seq_i, seq_j, kk) == PyTo(seq_i, kk) = PyTo(seq_j, kk)

\* Lines 51 and 58: seq_i[-k:] == seq_j[:k]
Matches(seq_i, seq_j, kk) == PyFrom(seq_i, -kk) = PyTo(seq_j, kk)

\* A slip of lines 50-62: the scan goes on to the last k that matches.
LastHit(seq_i, seq_j, eff, step) ==
    LET lim == Min(Len(seq_i), Len(seq_j))
        hits == {kk \in eff..lim : (kk - eff) % step = 0 /\ Matches(seq_i, seq_j, kk)}
    IN IF hits = {} THEN [hit |-> FALSE, k |-> 0]
       ELSE [hit |-> TRUE, k |-> CHOOSE kk \in hits : \A other \in hits : other <= kk]

\* Lines 50-51: the first k of range(eff, min(len_i, len_j) + 1, step) that matches.
FirstHit(seq_i, seq_j, eff, step) ==
    LET lim == Min(Len(seq_i), Len(seq_j))
        hits == {kk \in eff..lim : (kk - eff) % step = 0 /\ Matches(seq_i, seq_j, kk)}
    IN IF hits = {} THEN [hit |-> FALSE, k |-> 0]
       ELSE [hit |-> TRUE, k |-> CHOOSE kk \in hits : \A other \in hits : kk <= other]

\* A slip of lines 52-59: the stride position is accepted as it is.
RefineNone(seq_i, seq_j, kk, eff, step) == kk

\* Lines 55-59: the largest match in the window around the hit (0 if none).
Refine(seq_i, seq_j, kk, eff, step) ==
    LET start == Max(kk - step, eff)
        end == Min(kk + step, Min(Len(seq_i), Len(seq_j)))
        found == {0} \cup {e \in start..end : Matches(seq_i, seq_j, e)}
    IN CHOOSE e \in found : \A other \in found : other <= e

\* Lines 47-62: max_overlap of one ordered pair.
PairOverlap(seq_i, seq_j, eff, step) ==
    LET h == FirstHit(seq_i, seq_j, eff, step)
    IN IF ~h.hit THEN 0
       ELSE IF step > 1 THEN Refine(seq_i, seq_j, h.k, eff, step)
       ELSE h.k

\* The overlap graph as one record.
OG(nodes, adj, w) == [nodes |-> nodes, adj |-> adj, w |-> w]

\* networkx DiGraph.add_edge(u, v, weight=w)
add_edge(gr, u, v, w) ==
    LET nodes1 == IF Contains(gr.nodes, u) THEN gr.nodes ELSE Append(gr.nodes, u)
        nodes2 == IF Contains(nodes1, v) THEN nodes1 ELSE Append(nodes1, v)
        adj1 == DTouch(DTouch(gr.adj, u, <<>>), v, <<>>)
        adj2 == IF Contains(adj1[u], v) THEN adj1 ELSE Put(adj1, u, Append(adj1[u], v))
    IN OG(nodes2, adj2, Put(gr.w, <<u, v>>, w))

\* A slip of lines 43-44: the read is also paired with itself.
OverlapRowOfNoSkip(gr, working, i, eff, step) ==
    LET overlap(j) == PairOverlap(working[i][2], working[j][2], eff, step)
        enough(j) == overlap(j) >= eff
        js == [j \in 1..Len(working) |-> j]
        hits == SelectSeq(js, enough)
        RECURSIVE Add(_, _)
        Add(g, n) ==
            IF n > Len(hits) THEN g
            ELSE Add(add_edge(g, working[i][1], working[hits[n]][1], overlap(hits[n])), n + 1)
    IN [gr |-> Add(gr, 1),
        calls |-> [n \in 1..Len(hits) |->
                      <<working[i][1], working[hits[n]][1], overlap(hits[n])>>],
        js |-> Range(js)]

\* Lines 42-66: the inner loop for the read at position i (1-based): the graph
\* it leaves, the add_edge calls it made and the positions j it evaluated.
OverlapRowOf(gr, working, i, eff, step) ==
    LET other(j) == i # j
        overlap(j) == PairOverlap(working[i][2], working[j][2], eff, step)
        enough(j) == overlap(j) >= eff
        js == SelectSeq([j \in 1..Len(working) |-> j], other)
        hits == SelectSeq(js, enough)
        RECURSIVE Add(_, _)
        Add(g, n) ==
            IF n > Len(hits) THEN g
            ELSE Add(add_edge(g, working[i][1], working[hits[n]][1], overlap(hits[n])), n + 1)
    IN [gr |-> Add(gr, 1),
        calls |-> [n \in 1..Len(hits) |->
                      <<working[i][1], working[hits[n]][1], overlap(hits[n])>>],
        js |-> Range(js)]

\* ------------------------------------------------------------------------
\* OLCAssembler.find_paths
\* ------------------------------------------------------------------------
OutDegree(adj, n) == Len(adj[n])

InDegree(adj, n) == Cardinality({u \in DOMAIN adj : Contains(adj[u], n)})

Edges(adj) == UNION {{<<u, adj[u][i]>> : i \in 1..Len(adj[u])} : u \in DOMAIN adj}

\* A slip of lines 92-96: the first node with outgoing edges is taken.
FirstOutNode(nodes, adj) ==
    LET idx == {i \in 1..Len(nodes) : OutDegree(adj, nodes[i]) > 0}
    IN IF idx = {} THEN <<>> ELSE <<nodes[CHOOSE i \in idx : \A j \in idx : i <= j]>>

\* Lines 92-96: the first node of largest out-degree among those with edges.
MaxOutNode(nodes, adj) ==
    LET idx == {i \in 1..Len(nodes) : OutDegree(adj, nodes[i]) > 0}
        best == CHOOSE i \in idx :
                    \A j \in idx : \/ OutDegree(adj, nodes[j]) < OutDegree(adj, nodes[i])
                                   \/ (OutDegree(adj, nodes[j]) = OutDegree(adj, nodes[i]) /\ i <= j)
    IN IF idx = {} THEN <<>> ELSE <<nodes[best]>>

\* Lines 83-99: start_nodes.
PathStarts(nodes, adj) ==
    LET noIn(n) == InDegree(adj, n) = 0
        fewerIn(n) == InDegree(adj, n) < OutDegree(adj, n)
        a == SelectSeq(nodes, noIn)
        b == SelectSeq(nodes, fewerIn)
        c == MaxOutNode(nodes, adj)
    IN IF a # <<>> THEN a
       ELSE IF b # <<>> THEN b
       ELSE IF c # <<>> THEN c
       ELSE PyTo(nodes, 1)

\* A slip of lines 145-148: the visited edges are not filtered out.
AllOut(adj, vis, cur) == adj[cur]

\* Lines 145-148: unvisited_out, in the order of out_edges(current).
UnvisitedOut(adj, vis, cur) ==
    LET unv(v) == <<cur, v>> \notin vis
    IN SelectSeq(adj[cur], unv)

\* A slip of lines 154-155: the first unvisited edge is taken whatever its weight.
FirstTarget(w, cur, outs) == outs[1]

\* Lines 154-155: max(unvisited_out, key=weight) returns the first maximum.
MaxWeightTarget(w, cur, outs) ==
    LET best == CHOOSE i \in 1..Len(outs) :
                    \A j \in 1..Len(outs) : \/ w[<<cur, outs[j]>>] < w[<<cur, outs[i]>>]
                                            \/ (w[<<cur, outs[j]>>] = w[<<cur, outs[i]>>] /\ i <= j)
    IN outs[best]

\* A slip of lines 160-162: the walk goes on into a node of its path.
InPathNever(p, next_node) == FALSE

\* Line 161: next_node in path.
InPath(p, next_node) == Contains(p, next_node)

\* Lines 168-169
KeepPath(ps, p) == IF Len(p) > 1 THEN Append(ps, p) ELSE ps

\* Lines 143-165: the while loop of _build_greedy_paths run to its end from the
\* path p at node cur; the visited edges and the path it leaves.
RECURSIVE GreedyWalk(_, _, _, _, _)
GreedyWalk(adj, w, vis, p, cur) ==
    LET unvisited_out == UnvisitedOut(adj, vis, cur)
        next_node == MaxWeightTarget(w, cur, unvisited_out)
    IN IF unvisited_out = <<>> THEN [vis |-> vis, path |-> p]
       ELSE IF InPath(p, next_node)
            THEN [vis |-> vis \cup {<<cur, next_node>>}, path |-> p]
            ELSE GreedyWalk(adj, w, vis \cup {<<cur, next_node>>}, Append(p, next_node), next_node)

\* Lines 102-104: the loop over start_nodes; the visited edges and paths after it.
RECURSIVE PriorityPhase(_, _, _, _, _, _)
PriorityPhase(adj, w, starts, i, vis, ps) ==
    IF i > Len(starts) THEN [vis |-> vis, paths |-> ps]
    ELSE LET r == GreedyWalk(adj, w, vis, <<starts[i]>>, starts[i])
         IN PriorityPhase(adj, w, starts, i + 1, r.vis, KeepPath(ps, r.path))

\* Lines 107-116: the leftover loop; every list of paths it can return, one
\* for each order in which the set of unvisited edges can yield its elements.
RECURSIVE LeftoverPhase(_, _, _, _)
LeftoverPhase(adj, w, vis, ps) ==
    IF Edges(adj) \ vis = {} THEN {ps}
    ELSE UNION { LET r == GreedyWalk(adj, w, vis \cup {e}, <<e[1], e[2]>>, e[2])
                 IN LeftoverPhase(adj, w, r.vis, KeepPath(ps, r.path))
                 : e \in Edges(adj) \ vis }

\* Lines 75-119: every list of paths find_paths can return for one graph.
find_paths(nodes, adj, w) ==
    IF nodes = <<>> THEN {<<>>}
    ELSE LET r == PriorityPhase(adj, w, PathStarts(nodes, adj), 1, {}, <<>>)
         IN LeftoverPhase(adj, w, r.vis, r.paths)

\* ------------------------------------------------------------------------
\* OLCAssembler.generate_consensus
\* ------------------------------------------------------------------------
\* A slip of lines 191-193: the weight is used unclipped.
ClipOverlapNone(overlap, seq) == overlap

\* Lines 191-193: the offset used for the next read.
ClipOverlap(overlap, seq) ==
    IF overlap >= Len(seq) THEN Max(0, Len(seq) - 1) ELSE overlap

\* Lines 178-198: the contig of one path.
PathContig(p, rd, w) ==
    LET RECURSIVE F(_, _)
        F(contig, i) ==
            IF i > Len(p) THEN contig
            ELSE F(contig \o PyFrom(rd[p[i]], ClipOverlap(w[<<p[i - 1], p[i]>>], rd[p[i]])), i + 1)
    IN IF Len(p) = 1 THEN rd[p[1]] ELSE F(rd[p[1]], 2)

\* The keys of read_dict in insertion order (line 222).
DictKeys(rs) ==
    LET first(i) == \A j \in 1..(i - 1) : rs[j][1] # rs[i][1]
        idx == SelectSeq([i \in 1..Len(rs) |-> i], first)
    IN [n \in 1..Len(idx) |-> rs[idx[n]][1]]

\* Line 222: read_dict, a later record replacing an earlier one of the same header.
ReadDict(rs) ==
    [h \in {rs[i][1] : i \in 1..Len(rs)} |->
        rs[CHOOSE i \in 1..Len(rs) : rs[i][1] = h /\ \A j \in (i + 1)..Len(rs) : rs[j][1] # h][2]]

\* A slip of lines 203-204: among equal lengths the later read comes first.
SortedByLenDescUnstable(hs, rd) ==
    LET RECURSIVE Ins(_, _)
        Ins(sorted, h) ==
            IF sorted = <<>> THEN <<h>>
            ELSE IF Len(rd[Head(sorted)]) > Len(rd[h])
                 THEN <<Head(sorted)>> \o Ins(Tail(sorted), h)
                 ELSE <<h>> \o sorted
        RECURSIVE F(_, _)
        F(acc, i) == IF i > Len(hs) THEN acc ELSE F(Ins(acc, hs[i]), i + 1)
    IN F(<<>>, 1)

\* sorted(..., key=len, reverse=True): stable, equal lengths keep their order.
SortedByLenDesc(hs, rd) ==
    LET RECURSIVE Ins(_, _)
        Ins(sorted, h) ==
            IF sorted = <<>> THEN <<h>>
            ELSE IF Len(rd[Head(sorted)]) >= Len(rd[h])
                 THEN <<Head(sorted)>> \o Ins(Tail(sorted), h)
                 ELSE <<h>> \o sorted
        RECURSIVE F(_, _)
        F(acc, i) == IF i > Len(hs) THEN acc ELSE F(Ins(acc, hs[i]), i + 1)
    IN F(<<>>, 1)

FallbackCount == 5      \* line 205: [:5]

\* Lines 175-210
generate_consensus(ps, rd, keys, w) ==
    LET fromPaths == [i \in 1..Len(ps) |-> PathContig(ps[i], rd, w)]
        longest_reads == PyTo(SortedByLenDesc(keys, rd), FallbackCount)
    IN IF fromPaths = <<>> /\ DOMAIN rd # {}
       THEN [i \in 1..Len(longest_reads) |-> rd[longest_reads[i]]]
       ELSE fromPaths

\* ------------------------------------------------------------------------
\* States after construction
\* ------------------------------------------------------------------------
DBGUnused ==
    /\ k = 0
    /\ graph_keys = <<>>
    /\ graph = EmptyDict
    /\ in_degree = EmptyDict
    /\ out_degree = EmptyDict
    /\ all_reads = {}
    /\ dpc = "unused"
    /\ assembling = FALSE
    /\ start_nodes = <<>>
    /\ si = 0
    /\ visited = {}
    /\ path = <<>>
    /\ chain = <<>>
    /\ current = <<>>
    /\ contigs = <<>>
    /\ chains = <<>>
    /\ walks = <<>>
    /\ fasta = NoFile
    /\ gfa = NoFile

\* OLCAssembler.__init__(min_overlap), and the reads assemble() is given.
OLCStart(mo, rs) ==
    /\ min_overlap = mo
    /\ reads = rs
    /\ read_dict = EmptyDict
    /\ onodes = <<>>
    /\ oadj = EmptyDict
    /\ weight = EmptyDict
    /\ opc = "new"
    /\ max_reads = 0
    /\ is_long_read = FALSE
    /\ oi = 0
    /\ ostarts = <<>>
    /\ osi = 0
    /\ paths = <<>>
    /\ visited_edges = {}
    /\ opath = <<>>
    /\ ocurrent = ""
    /\ ocontigs = <<>>
    /\ ofasta = NoFile
    /\ evaluated = {}
    /\ add_calls = <<>>
    /\ selected = <<>>

OLCUnused ==
    /\ min_overlap = 0
    /\ reads = <<>>
    /\ read_dict = EmptyDict
    /\ onodes = <<>>
    /\ oadj = EmptyDict
    /\ weight = EmptyDict
    /\ opc = "unused"
    /\ max_reads = 0
    /\ is_long_read = FALSE
    /\ oi = 0
    /\ ostarts = <<>>
    /\ osi = 0
    /\ paths = <<>>
    /\ visited_edges = {}
    /\ opath = <<>>
    /\ ocurrent = ""
    /\ ocontigs = <<>>
    /\ ofasta = NoFile
    /\ evaluated = {}
    /\ add_calls = <<>>
    /\ selected = <<>>

\* ------------------------------------------------------------------------
\* Operations of the OLC assembler, in the order assemble() runs them
\* ------------------------------------------------------------------------
\* assemble() line 222 and find_overlaps lines 22-36.
FindOverlapsBegin ==
    /\ opc = "new"
    /\ read_dict' = ReadDict(reads)
    /\ LET mr == MaxReadsOf(Len(reads))
           avg_len == AvgLen(WorkingReads(reads, mr))
       IN /\ max_reads' = mr
          /\ IF avg_len.kind = "raise"
             THEN /\ err' = "ZeroDivisionError"
                  /\ opc' = "failed"
                  /\ UNCHANGED is_long_read
             ELSE /\ is_long_read' = MeanGt(avg_len, LongReadMean)
                  /\ opc' = "overlaps"
                  /\ UNCHANGED err
    /\ oi' = 0
    /\ UNCHANGED <<dbgvars, min_overlap, reads, onodes, oadj, weight, ostarts, osi,
                   paths, visited_edges, opath, ocurrent, ocontigs, ofasta,
                   evaluated, add_calls, selected>>

\* Lines 41-66: one iteration of the outer loop.
OverlapRow ==
    /\ opc = "overlaps"
    /\ oi < Len(WorkingReads(reads, max_reads))
    /\ LET row == OverlapRowOf(OG(onodes, oadj, weight), WorkingReads(reads, max_reads),
                               oi + 1, EffectiveMinOverlap(min_overlap, is_long_read),
                               StepOf(is_long_read))
       IN /\ onodes' = row.gr.nodes
          /\ oadj' = row.gr.adj
          /\ weight' = row.gr.w
          /\ add_calls' = add_calls \o row.calls
          /\ evaluated' = row.js
    /\ oi' = oi + 1
    /\ UNCHANGED <<dbgvars, err, min_overlap, reads, read_dict, opc, max_reads,
                   is_long_read, ostarts, osi, paths, visited_edges, opath, ocurrent,
                   ocontigs, ofasta, selected>>

\* Lines 68-69 and 75-99: find_overlaps returns and find_paths begins.
FindPathsBegin ==
    /\ opc = "overlaps"
    /\ oi = Len(WorkingReads(reads, max_reads))
    /\ paths' = <<>>
    /\ visited_edges' = {}
    /\ osi' = 0
    /\ IF onodes = <<>>
       THEN /\ opc' = "consensus"
            /\ UNCHANGED ostarts
       ELSE /\ ostarts' = PathStarts(onodes, oadj)
            /\ opc' = "starts"
    /\ UNCHANGED <<dbgvars, err, min_overlap, reads, read_dict, onodes, oadj, weight,
                   max_reads, is_long_read, oi, opath, ocurrent, ocontigs, ofasta,
                   evaluated, add_calls, selected>>

\* Lines 102-104 and 132-133: _build_greedy_paths is entered for the next start node.
PriorityStart ==
    /\ opc = "starts"
    /\ osi < Len(ostarts)
    /\ opath' = <<ostarts[osi + 1]>>
    /\ ocurrent' = ostarts[osi + 1]
    /\ opc' = "greedy"
    /\ UNCHANGED <<dbgvars, err, min_overlap, reads, read_dict, onodes, oadj, weight,
                   max_reads, is_long_read, oi, ostarts, osi, paths, visited_edges,
                   ocontigs, ofasta, evaluated, add_calls, selected>>

\* Lines 110-113 and 132-140: an unvisited edge, whichever the set yields first,
\* seeds _build_greedy_paths.
LeftoverStart ==
    /\ opc = "starts"
    /\ osi = Len(ostarts)
    /\ \E e \in Edges(oadj) \ visited_edges :
          /\ visited_edges' = visited_edges \cup {e}
          /\ selected' = Append(selected, e)
          /\ opath' = <<e[1], e[2]>>
          /\ ocurrent' = e[2]
    /\ opc' = "greedy"
    /\ UNCHANGED <<dbgvars, err, min_overlap, reads, read_dict, onodes, oadj, weight,
                   max_reads, is_long_read, oi, ostarts, osi, paths, ocontigs, ofasta,
                   evaluated, add_calls>>

\* Lines 143-169: one iteration of the while loop; the last one also records
\* the path and returns to find_paths.
GreedyStep ==
    /\ opc = "greedy"
    /\ LET unvisited_out == UnvisitedOut(oadj, visited_edges, ocurrent)
           leave(p) == /\ paths' = KeepPath(paths, p)
                       /\ osi' = IF osi < Len(ostarts) THEN osi + 1 ELSE osi
                       /\ opc' = "starts"
                       /\ opath' = <<>>
                       /\ ocurrent' = ""
       IN IF unvisited_out = <<>>
          THEN /\ leave(opath)
               /\ UNCHANGED <<visited_edges, selected>>
          ELSE LET next_node == MaxWeightTarget(weight, ocurrent, unvisited_out)
               IN /\ visited_edges' = visited_edges \cup {<<ocurrent, next_node>>}
                  /\ selected' = Append(selected, <<ocurrent, next_node>>)
                  /\ IF InPath(opath, next_node)
                     THEN leave(opath)
                     ELSE /\ opath' = Append(opath, next_node)
                          /\ ocurrent' = next_node
                          /\ UNCHANGED <<paths, osi, opc>>
    /\ UNCHANGED <<dbgvars, err, min_overlap, reads, read_dict, onodes, oadj, weight,
                   max_reads, is_long_read, oi, ostarts, ocontigs, ofasta,
                   evaluated, add_calls>>

\* Lines 110 and 118-119: no unvisited edge is left, find_paths returns.
FindPathsReturn ==
    /\ opc = "starts"
    /\ osi = Len(ostarts)
    /\ Edges(oadj) \ visited_edges = {}
    /\ opc' = "consensus"
    /\ UNCHANGED <<dbgvars, err, min_overlap, reads, read_dict, onodes, oadj, weight,
                   max_reads, is_long_read, oi, ostarts, osi, paths, visited_edges,
                   opath, ocurrent, ocontigs, ofasta, evaluated, add_calls, selected>>

\* assemble() lines 231-240: generate_consensus, then write_fasta.
GenerateConsensus ==
    /\ opc = "consensus"
    /\ ocontigs' = generate_consensus(paths, read_dict, DictKeys(reads), weight)
    /\ ofasta' = File("assemble",
                       write_fasta(generate_consensus(paths, read_dict, DictKeys(reads), weight)))
    /\ opc' = "done"
    /\ UNCHANGED <<dbgvars, err, min_overlap, reads, read_dict, onodes, oadj, weight,
                   max_reads, is_long_read, oi, ostarts, osi, paths, visited_edges,
                   opath, ocurrent, evaluated, add_calls, selected>>

NextOLC ==
    \/ FindOverlapsBegin
    \/ OverlapRow
    \/ FindPathsBegin
    \/ PriorityStart
    \/ LeftoverStart
    \/ GreedyStep
    \/ FindPathsReturn
    \/ GenerateConsensus

\* ------------------------------------------------------------------------
\* Specifications
\* ------------------------------------------------------------------------
\* A DBGAssembler with a valid k, driven by any sequence of calls.
InitDBG == DBGStart(KValues \cup {ScenarioA.k, MergeInput.k}) /\ OLCUnused /\ err = "none"

SpecDBG == InitDBG /\ [][NextDBG]_vars

\* The same with find_contigs run to its end: it is one sequential call, so
\* each step of its loops and its return are taken once they can be. The calls
\* from outside come when the caller makes them, if ever.
SpecDBGFair ==
    /\ InitDBG
    /\ [][NextDBG]_vars
    /\ WF_vars(NextStart)
    /\ WF_vars(Walk)
    /\ WF_vars(FindContigsReturn)
    /\ WF_vars(AssembleFinish)

\* An OLCAssembler with a valid min_overlap, running assemble() on some reads.
InitOLC ==
    /\ DBGUnused
    /\ err = "none"
    /\ \/ \E mo \in MinOverlaps, rs \in OLCInputs : OLCStart(mo, rs)
       \/ OLCStart(ScenarioB.min_overlap, ScenarioB.reads)
       \/ OLCStart(FallbackInput.min_overlap, FallbackInput.reads)

SpecOLC == InitOLC /\ [][NextOLC]_vars

\* The same with find_paths run to its end: it is one sequential call, so
\* each of its steps is taken once it can be.
SpecOLCFair ==
    /\ InitOLC
    /\ [][NextOLC]_vars
    /\ WF_vars(PriorityStart)
    /\ WF_vars(LeftoverStart)
    /\ WF_vars(GreedyStep)
    /\ WF_vars(FindPathsReturn)

\* The same, with the large inputs added.
InitOLCLarge ==
    \/ InitOLC
    \/ /\ DBGUnused
       /\ err = "none"
       /\ \E in \in LargeInputs : OLCStart(in.min_overlap, in.reads)

SpecOLCLarge == InitOLCLarge /\ [][NextOLC]_vars

\* Either assembler, validly configured.
Init == InitDBG \/ InitOLC

Next == NextDBG \/ NextOLC

Spec == Init /\ [][Next]_vars

\* Either assembler, constructed with k <= 0 or min_overlap <= 0.
BadValues == {-1, 0}

InitCfg ==
    /\ err = "none"
    /\ \/ DBGStart(BadValues) /\ OLCUnused
       \/ DBGUnused /\ \E mo \in BadValues, rs \in OLCInputs : OLCStart(mo, rs)

SpecCfg == InitCfg /\ [][Next]_vars

\* ------------------------------------------------------------------------
\* Properties
\* ------------------------------------------------------------------------
Last(sq) == sq[Len(sq)]

NoDuplicates(sq) == \A i, j \in 1..Len(sq) : sq[i] = sq[j] => i = j

\* The consecutive pairs of one path, and of all paths, in order.
PairsOf(p) == [i \in 1..(Len(p) - 1) |-> <<p[i], p[i + 1]>>]

PathEdges(ps) == Flatten([i \in 1..Len(ps) |-> PairsOf(ps[i])])

FindPathsReturned == opc \in {"consensus", "done"}

DistinctHeaders == NoDuplicates([i \in 1..Len(reads) |-> reads[i][1]])

\* The sequence of the read whose identifier is h.
SeqOf(h) == reads[CHOOSE i \in 1..Len(reads) : reads[i][1] = h][2]

\* C1: when find_paths has returned (on the overlap graph of reads with
\* distinct identifiers), the consecutive pairs of the emitted paths are
\* exactly the edges of the overlap graph, each of them once.
C1_PathsPartitionEdges ==
    (FindPathsReturned /\ DistinctHeaders) =>
        /\ Range(PathEdges(paths)) = Edges(oadj)
        /\ NoDuplicates(PathEdges(paths))

\* C2: for reads with distinct identifiers, every two-read path [r1, r2] gives
\* the contig seq(r1) followed by seq(r2) without its first w characters, w
\* being the weight recorded for r1 -> r2, and there is one contig per path.
C2_ConsensusRoundTrip ==
    (opc = "done" /\ DistinctHeaders /\ paths # <<>>) =>
        /\ Len(ocontigs) = Len(paths)
        /\ \A i \in 1..Len(paths) :
              Len(paths[i]) = 2 =>
                  LET r1 == paths[i][1]
                      r2 == paths[i][2]
                      w == weight[<<r1, r2>>]
                  IN ocontigs[i] = SeqOf(r1) \o SubSeq(SeqOf(r2), w + 1, Len(SeqOf(r2)))

\* C3: with min_overlap > 0 and distinct identifiers, every edge i -> j of
\* weight w has effective_min_overlap <= w <= min(len i, len j), and the last
\* w characters of read i are the first w characters of read j.
C3_EdgesAreExactOverlaps ==
    (opc # "unused" /\ min_overlap > 0 /\ DistinctHeaders) =>
        \A e \in DOMAIN weight :
            LET w == weight[e]
                seq_i == SeqOf(e[1])
                seq_j == SeqOf(e[2])
            IN /\ EffectiveMinOverlap(min_overlap, is_long_read) <= w
               /\ w <= Len(seq_i)
               /\ w <= Len(seq_j)
               /\ SubSeq(seq_i, Len(seq_i) - w + 1, Len(seq_i)) = SubSeq(seq_j, 1, w)

\* C3 witness: a long-read run has recorded an edge whose weight was found by
\* the refinement around a stride position.
C3_Witness ==
    /\ is_long_read
    /\ opc = "done"
    /\ \E e \in DOMAIN weight : weight[e] > EffectiveMinOverlap(min_overlap, is_long_read)

\* The k-mer spelled by the edge prefix -> suffix.
KmerOf(prefix, suffix) == prefix \o <<Last(suffix)>>

OccursIn(kmer, seq) ==
    \E i \in 1..(Len(seq) - Len(kmer) + 1) : SubSeq(seq, i, i + Len(kmer) - 1) = kmer

\* C4: for k >= 2, every edge prefix -> suffix of the k-mer graph spells a
\* string of length k over A, C, G, T that occurs in a read given to build_graph.
C4_EdgesAreReadKmers ==
    (dpc # "unused" /\ k >= 2) =>
        \A prefix \in DOMAIN graph :
            \A j \in 1..Len(graph[prefix]) :
                LET kmer == KmerOf(prefix, graph[prefix][j])
                IN /\ Len(kmer) = k
                   /\ Range(kmer) \subseteq ACGT
                   /\ \E seq \in all_reads : OccursIn(kmer, seq)

\* C4 witness: edges exist and one of the reads given contains a non-ACGT base.
C4_Witness ==
    /\ \E prefix \in DOMAIN graph : graph[prefix] # <<>>
    /\ \E seq \in all_reads : "N" \in Range(seq)
    /\ Cardinality(all_reads) >= 2

\* C5: every contig has length >= k, and each of its windows of length k is
\* an edge of the graph: c[i:i+k-1] is a node with c[i+1:i+k] among its successors.
C5_ContigsAreChains ==
    dpc # "unused" =>
        \A n \in 1..Len(contigs) :
            LET c == contigs[n]
            IN /\ Len(c) >= k
               /\ \A i \in 0..(Len(c) - k) :
                     /\ SubSeq(c, i + 1, i + k - 1) \in DOMAIN graph
                     /\ Contains(graph[SubSeq(c, i + 1, i + k - 1)], SubSeq(c, i + 2, i + k))

\* C5 witness: find_contigs returned a contig that is longer than one k-mer.
C5_Witness ==
    /\ dpc = "ready"
    /\ \E n \in 1..Len(contigs) : Len(contigs[n]) > k

\* Every node of the k-mer graph: the keys and the successors.
GraphNodes == (DOMAIN graph) \cup UNION {Range(graph[n]) : n \in DOMAIN graph}

\* C6: no successor list holds a node twice, out_degree[n] is the number of
\* successors of n and in_degree[n] the number of nodes that list n.
C6_SimpleGraphDegrees ==
    dpc # "unused" =>
        /\ \A n \in DOMAIN graph : NoDuplicates(graph[n])
        /\ \A n \in GraphNodes \cup DOMAIN out_degree \cup DOMAIN in_degree :
              /\ DGet(out_degree, n, 0) = Len(DGet(graph, n, <<>>))
              /\ DGet(in_degree, n, 0)
                    = Cardinality({u \in DOMAIN graph : Contains(graph[u], n)})

\* C6 witness: two reads that share a k-mer have both been added.
C6_Witness ==
    /\ {<<"A", "C">>, <<"A", "C", "A", "C">>} \subseteq all_reads
    /\ \E prefix \in DOMAIN graph : graph[prefix] # <<>>

\* C7: an assembler constructed with k <= 0 or min_overlap <= 0 never adds a
\* node or an edge and produces no contig; once used it holds a configuration error.
C7_ConfigErrorsFailFast ==
    /\ (dpc # "unused" /\ k <= 0) =>
          /\ graph_keys = <<>>
          /\ contigs = <<>>
          /\ (all_reads # {} => err = "ConfigurationError")
    /\ (opc # "unused" /\ min_overlap <= 0) =>
          /\ onodes = <<>>
          /\ ocontigs = <<>>
          /\ (opc # "new" => err = "ConfigurationError")

GfaHeader == <<"H", "VN:Z:1.0">>

\* C8: with zero reads neither pipeline reaches an error state, no contig is
\* produced, the FASTA files have no record and the GFA file has the header only.
C8_EmptyInputIsValid ==
    /\ (dpc # "unused" /\ all_reads = {}) =>
          /\ err = "none"
          /\ dpc # "failed"
          /\ graph_keys = <<>>
          /\ contigs = <<>>
          /\ fasta.lines = <<>>
          /\ (gfa.by # "none" => gfa.lines = <<GfaHeader>>)
    /\ (opc # "unused" /\ reads = <<>>) =>
          /\ err = "none"
          /\ opc # "failed"
          /\ onodes = <<>>
          /\ paths = <<>>
          /\ ocontigs = <<>>
          /\ ofasta.lines = <<>>

\* C8 witness: the OLC pipeline has run to its end on zero reads.
C8_Witness ==
    /\ opc = "done"
    /\ reads = <<>>
    /\ ofasta.by = "assemble"

\* The link lines of the GFA file.
LinkLines == {i \in 1..Len(gfa.lines) : gfa.lines[i][1] = "L"}

SegmentLines == {i \in 1..Len(gfa.lines) : gfa.lines[i][1] = "S"}

\* C9 as claimed: the number before M on every link line is k - 1.
C9_LinkOverlapIsKMinus1 ==
    dpc # "unused" => \A i \in LinkLines : gfa.lines[i][6] = k - 1

\* C9 as amended: every link line is L, a, +, b, +, (k-2), M for an edge a -> b
\* of the graph; the number is the node length minus one, that is k - 2.
C9_LinkOverlapIsKMinus2 ==
    dpc # "unused" =>
        \A i \in LinkLines :
            LET line == gfa.lines[i]
            IN /\ Len(line) = 7
               /\ line[3] = "+" /\ line[5] = "+" /\ line[7] = "M"
               /\ line[2] \in DOMAIN graph
               /\ Contains(graph[line[2]], line[4])
               /\ line[6] = k - 2

\* C9 witness: a GFA file with a link line has been written.
C9_Witness == gfa.by # "none" /\ LinkLines # {}

\* Every node of the graph has exactly one segment line, and both ends of
\* every link line have a segment line.
SegmentsComplete ==
    /\ \A n \in GraphNodes :
          Cardinality({i \in SegmentLines : gfa.lines[i][2] = n}) = 1
    /\ \A i \in LinkLines :
          /\ \E j \in SegmentLines : gfa.lines[j][2] = gfa.lines[i][2]
          /\ \E j \in SegmentLines : gfa.lines[j][2] = gfa.lines[i][4]

\* C10: the GFA file that assemble() writes has exactly one segment line for
\* every node of the graph, sinks included, so every node named on a link
\* line has its segment line.
C10_EveryNodeHasSegment == [][AssembleFinish => SegmentsComplete']_vars

\* The k-mer graph as a plain digraph: degrees counted on the successor lists.
KmerIn(n) == Cardinality({u \in DOMAIN graph : Contains(graph[u], n)})

KmerOut(n) == Len(DGet(graph, n, <<>>))

\* The nodes met by following single successors from n, at most fuel of them.
RECURSIVE FollowFrom(_, _)
FollowFrom(n, fuel) ==
    IF fuel = 0 \/ KmerOut(n) # 1 THEN <<n>>
    ELSE <<n>> \o FollowFrom(graph[n][1], fuel - 1)

\* The source of the graph when it is a single simple non-branching chain.
ChainSources ==
    {n0 \in GraphNodes :
        /\ KmerIn(n0) = 0
        /\ \A n \in GraphNodes \ {n0} : KmerIn(n) = 1
        /\ \E nm \in GraphNodes \ {n0} :
              /\ KmerOut(nm) = 0
              /\ \A n \in GraphNodes \ {nm} : KmerOut(n) = 1
        /\ Range(FollowFrom(n0, Cardinality(GraphNodes))) = GraphNodes}

\* n0 followed by the last character of each of n1..nm.
ChainContig(n0) ==
    LET nodes == FollowFrom(n0, Cardinality(GraphNodes))
    IN n0 \o [i \in 1..(Len(nodes) - 1) |-> Last(nodes[i + 1])]

ScenarioANodes ==
    { <<"A", "C", "G">>, <<"C", "G", "T">>, <<"G", "T", "A">>, <<"T", "A", "C">>,
      <<"A", "C", "T">>, <<"C", "T", "G">>, <<"T", "G", "A">>, <<"G", "A", "A">> }

ScenarioAContig == <<"A", "C", "G", "T", "A", "C", "T", "G", "A", "A">>

ScenarioABuilt == k = ScenarioA.k /\ all_reads = Range(ScenarioA.reads)

\* C11: whenever find_contigs returns on a graph that is a single simple
\* non-branching chain n0 -> ... -> nm, it returns exactly one contig, n0
\* followed by the last character of each of n1..nm; and on the reads ACGTAC,
\* GTACTG, ACTGAA with k = 4 the nodes are ACG, CGT, GTA, TAC, ACT, CTG, TGA,
\* GAA and the single contig is ACGTACTGAA.
C11_ChainGivesOneContig ==
    [][(FindContigsReturn \/ AssembleFinish) =>
          /\ \A n0 \in ChainSources : contigs' = <<ChainContig(n0)>>
          /\ ScenarioABuilt => (GraphNodes = ScenarioANodes /\ contigs' = <<ScenarioAContig>>)]_vars

\* C11 witness: find_contigs has returned the contig of Scenario A.
C11_Witness ==
    /\ dpc = "ready"
    /\ ScenarioABuilt
    /\ Cardinality(ChainSources) = 1
    /\ contigs = <<ScenarioAContig>>

\* C12: for a fixed overlap graph find_paths emits the same list of paths on
\* every run: the list a run has returned is the only list find_paths can
\* return for that graph, whichever unvisited edge the leftover phase picks.
C12_FindPathsDeterministic ==
    (FindPathsReturned /\ DistinctHeaders) => find_paths(onodes, oadj, weight) = {paths}

\* The list of paths a run returns is one of those find_paths can return.
ReturnedPathsPossible == FindPathsReturned => paths \in find_paths(onodes, oadj, weight)

\* The cap of the subsampling rule as the specification states it.
CapOf(count) == IF count < 500 THEN 2000 ELSE 500

\* The positions (1-based) of the working reads: the first cap reads.
WorkingPositions == 1..Min(Len(reads), CapOf(Len(reads)))

\* C13: find_overlaps works on the first cap reads only, cap being 2000 for
\* fewer than 500 reads and 500 otherwise: both ends of every edge are reads
\* at one of the first cap positions, the outer loop ends after the last
\* working read, and each of its iterations pairs its read with every other
\* working read.
C13_SubsamplingRule ==
    opc \notin {"unused", "new"} =>
        /\ \A c \in Range(add_calls) :
              /\ \E i \in WorkingPositions : reads[i][1] = c[1]
              /\ \E j \in WorkingPositions : reads[j][1] = c[2]
        /\ \A e \in Edges(oadj) :
              /\ \E i \in WorkingPositions : reads[i][1] = e[1]
              /\ \E j \in WorkingPositions : reads[j][1] = e[2]
        /\ oi \in 0..Cardinality(WorkingPositions)
        /\ oi > 0 => evaluated = WorkingPositions \ {oi}
        /\ opc # "overlaps" => oi = Cardinality(WorkingPositions)

\* C13 witness: an assembly of more than 500 reads has ended with an edge in
\* its graph, the read after the cap being one that overlaps the first read.
C13_Witness ==
    /\ opc = "done"
    /\ Len(reads) > 500
    /\ Edges(oadj) # {}
    /\ PairOverlap(reads[1][2], reads[Len(reads)][2], min_overlap, 1) >= min_overlap

\* find_overlaps has returned.
FindOverlapsReturned == opc \in {"starts", "greedy", "consensus", "done"}

\* The suffix of a of length n is the prefix of b of length n.
SuffixIsPrefix(a, b, n) == SubSeq(a, Len(a) - n + 1, Len(a)) = SubSeq(b, 1, n)

\* The lengths from lo up to min(len a, len b) at which a's suffix is b's prefix.
OverlapLengths(a, b, lo) ==
    {n \in lo..Min(Len(a), Len(b)) : SuffixIsPrefix(a, b, n)}

Least(S) == CHOOSE x \in S : \A y \in S : x <= y

Greatest(S) == CHOOSE x \in S : \A y \in S : y <= x

C15_WeightIsMaximalOverlap ==
    (FindOverlapsReturned /\ min_overlap > 0 /\ DistinctHeaders) =>
        \A e \in DOMAIN weight :
            weight[e] = Greatest(OverlapLengths(SeqOf(e[1]), SeqOf(e[2]), 1))

\* The total length of the first n reads.
RECURSIVE TotalLength(_)
TotalLength(n) == IF n = 0 THEN 0 ELSE Len(reads[n][2]) + TotalLength(n - 1)

\* The mean length of the first 100 working reads exceeds 1000.
MeanOfFirst100Exceeds1000 ==
    LET n == Min(100, Cardinality(WorkingPositions))
    IN n > 0 /\ TotalLength(n) > 1000 * n

\* The edge of the ordered pair of working reads (i, j) is as the scan from eff
\* in steps of stride leaves it: none when no stride position matches,
\* otherwise weighted by the greatest match in the window around the first
\* stride position that matches (that position itself when stride is 1).
PairScannedWith(i, j, eff, stride) ==
    LET a == reads[i][2]
        b == reads[j][2]
        lim == Min(Len(a), Len(b))
        hits == {n \in eff..lim : (n - eff) % stride = 0 /\ SuffixIsPrefix(a, b, n)}
        e == <<reads[i][1], reads[j][1]>>
    IN /\ e \in Edges(oadj) <=> hits # {}
       /\ hits # {} =>
             LET k0 == Least(hits)
                 window == {n \in Max(k0 - stride, eff)..Min(k0 + stride, lim) :
                               SuffixIsPrefix(a, b, n)}
             IN weight[e] = IF stride > 1 THEN Greatest(window) ELSE k0

WrittenEdges == [n \in 1..Len(add_calls) |-> <<add_calls[n][1], add_calls[n][2]>>]

\* No edge is written twice, and none goes from an identifier to itself.
EdgesWrittenOnce ==
    /\ NoDuplicates(WrittenEdges)
    /\ \A n \in 1..Len(WrittenEdges) : WrittenEdges[n][1] # WrittenEdges[n][2]

\* C17 as claimed: for every input list, each edge (source identifier, target
\* identifier) is written at most once by find_overlaps and no read is paired
\* with itself.
C17_EdgesWrittenOnce == opc # "unused" => EdgesWrittenOnce

\* C17 as amended: the same for every input list whose identifiers are
\* pairwise distinct.
C17_EdgesWrittenOnceDistinct == (opc # "unused" /\ DistinctHeaders) => EdgesWrittenOnce

\* C17 witness: find_overlaps has ended on reads with distinct identifiers
\* after writing the edges of both directions of a pair.
C17_Witness ==
    /\ FindOverlapsReturned
    /\ DistinctHeaders
    /\ \E m, n \in 1..Len(WrittenEdges) :
          WrittenEdges[m] = <<WrittenEdges[n][2], WrittenEdges[n][1]>>

\* The place of x in the sequence sq.
PlaceIn(sq, x) == CHOOSE i \in 1..Len(sq) : sq[i] = x

\* The targets of the unvisited outgoing edges of the current node.
UnvisitedTargets == {v \in Range(oadj[ocurrent]) : <<ocurrent, v>> \notin visited_edges}

\* v is the target of an unvisited outgoing edge of the current node of
\* greatest weight, the first of them in the order of the out-edges.
HeaviestFirst(v) ==
    /\ v \in UnvisitedTargets
    /\ \A u \in UnvisitedTargets :
          \/ weight[<<ocurrent, u>>] < weight[<<ocurrent, v>>]
          \/ /\ weight[<<ocurrent, u>>] = weight[<<ocurrent, v>>]
             /\ PlaceIn(oadj[ocurrent], v) <= PlaceIn(oadj[ocurrent], u)

\* The walk stops: the path is recorded when it has two nodes or more.
WalkStops ==
    /\ opc' = "starts"
    /\ paths' = IF Len(opath) >= 2 THEN Append(paths, opath) ELSE paths

\* C18: every step of _build_greedy_paths takes the unvisited outgoing edge
\* of the current node of greatest weight (the first in out-edge order among
\* equals) and marks it visited; its target is appended and becomes the
\* current node unless it is already in the path, in which case the walk
\* stops, as it does when the current node has no unvisited outgoing edge.
C18_GreedyStepTakesHeaviest ==
    [][GreedyStep =>
          IF UnvisitedTargets = {}
          THEN /\ WalkStops
               /\ visited_edges' = visited_edges
               /\ selected' = selected
          ELSE \E v \in UnvisitedTargets :
                  /\ HeaviestFirst(v)
                  /\ visited_edges' = visited_edges \cup {<<ocurrent, v>>}
                  /\ selected' = Append(selected, <<ocurrent, v>>)
                  /\ IF v \in Range(opath)
                     THEN WalkStops
                     ELSE /\ opath' = Append(opath, v)
                          /\ ocurrent' = v
                          /\ opc' = "greedy"
                          /\ paths' = paths]_vars

\* C18 witness: a step has taken an edge that is heavier than an unvisited
\* edge listed before it, and the walk went on from its target.
C18_Witness ==
    /\ opc = "greedy"
    /\ Len(opath) >= 2
    /\ LET u == opath[Len(opath) - 1]
       IN /\ selected # <<>>
          /\ Last(selected) = <<u, ocurrent>>
          /\ \E v \in Range(oadj[u]) :
                /\ <<u, v>> \notin visited_edges
                /\ PlaceIn(oadj[u], v) < PlaceIn(oadj[u], ocurrent)
                /\ weight[<<u, v>>] < weight[<<u, ocurrent>>]

\* Degrees counted on the edge set of the overlap graph.
EdgesInto(n) == Cardinality({e \in Edges(oadj) : e[2] = n})

EdgesFrom(n) == Cardinality({e \in Edges(oadj) : e[1] = n})

\* The nodes of S in the order of the graph's nodes.
InNodeOrder(S) ==
    LET member(n) == n \in S
    IN SelectSeq(onodes, member)

NoIncoming == {n \in Range(onodes) : EdgesInto(n) = 0}

FewerIncoming == {n \in Range(onodes) : EdgesInto(n) < EdgesFrom(n)}

WithOutgoing == {n \in Range(onodes) : EdgesFrom(n) > 0}

\* n has the greatest out-degree, and is the first such node.
FirstOfMostOutgoing(n) ==
    /\ n \in WithOutgoing
    /\ \A m \in WithOutgoing :
          \/ EdgesFrom(m) < EdgesFrom(n)
          \/ EdgesFrom(m) = EdgesFrom(n) /\ PlaceIn(onodes, n) <= PlaceIn(onodes, m)

\* C19: the start nodes of find_paths are all the nodes of in-degree 0 if
\* there is one; otherwise all the nodes with in-degree < out-degree if
\* there is one; otherwise the one node of greatest out-degree among those
\* with outgoing edges, the first in node order among equals; otherwise the
\* first node of the graph.
C19_StartFallbackOrder ==
    [][(FindPathsBegin /\ onodes # <<>>) =>
          IF NoIncoming # {} THEN ostarts' = InNodeOrder(NoIncoming)
          ELSE IF FewerIncoming # {} THEN ostarts' = InNodeOrder(FewerIncoming)
          ELSE IF WithOutgoing # {}
               THEN Len(ostarts') = 1 /\ FirstOfMostOutgoing(ostarts'[1])
          ELSE ostarts' = <<onodes[1]>>]_vars

\* C19 witness: no node has in-degree 0 or in-degree < out-degree, and the
\* start node is a node of greatest out-degree that is not the first node
\* with outgoing edges.
C19_Witness ==
    /\ opc = "starts"
    /\ NoIncoming = {}
    /\ FewerIncoming = {}
    /\ Len(ostarts) = 1
    /\ EdgesFrom(ostarts[1]) > EdgesFrom(onodes[1])
    /\ EdgesFrom(onodes[1]) > 0

\* find_paths is running.
FindPathsRunning == opc \in {"starts", "greedy"}

\* C20: find_paths terminates on every overlap graph, cycles included; when
\* it has returned every edge of the graph is marked visited; no edge is
\* selected for traversal twice, and every iteration of the leftover loop
\* marks an edge that was not visited before.
C20_FindPathsTerminates ==
    /\ [](FindPathsRunning => <>FindPathsReturned)
    /\ [](FindPathsReturned => visited_edges = Edges(oadj))
    /\ [](NoDuplicates(selected) /\ Range(selected) = visited_edges)
    /\ [][LeftoverStart =>
             \E e \in Edges(oadj) \ visited_edges : e \in visited_edges']_vars

\* C20 witness: find_paths has returned on a graph with a cycle, after a
\* leftover iteration.
C20_Witness ==
    /\ opc = "consensus"
    /\ \E e \in Edges(oadj) : e[1] # e[2] /\ <<e[2], e[1]>> \in Edges(oadj)
    /\ Len(paths) > Len(ostarts)
    /\ Cardinality(Edges(oadj)) >= 4

\* s without its first n characters.
DropFirst(s, n) == SubSeq(s, n + 1, Len(s))

\* The offset at which the read after an edge of weight w is appended.
OffsetFor(w, seq) == IF w < Len(seq) THEN w ELSE Len(seq) - 1

\* The contig of the first n nodes of the path p.
RECURSIVE Stitched(_, _)
Stitched(p, n) ==
    IF n = 1 THEN read_dict[p[1]]
    ELSE Stitched(p, n - 1)
         \o DropFirst(read_dict[p[n]], OffsetFor(weight[<<p[n - 1], p[n]>>], read_dict[p[n]]))

InputOrder == DictKeys(reads)

\* g comes before h among the longest reads: it is longer, or as long and
\* earlier in the input.
LongerOrEarlier(g, h) ==
    \/ Len(read_dict[g]) > Len(read_dict[h])
    \/ /\ Len(read_dict[g]) = Len(read_dict[h])
       /\ PlaceIn(InputOrder, g) < PlaceIn(InputOrder, h)

\* The rank of h in that order (1 for the first).
RankOf(h) == 1 + Cardinality({g \in DOMAIN read_dict : LongerOrEarlier(g, h)})

\* C22: when generate_consensus has no path and at least one read, it returns
\* min(5, number of reads) contigs, the longest reads in descending length,
\* equal lengths in input order; with at least one path it returns one contig
\* per path and no fallback read.
C22_FallbackLongestReads ==
    opc = "done" =>
        IF paths = <<>>
        THEN /\ Len(ocontigs) = Min(5, Cardinality(DOMAIN read_dict))
             /\ \A i \in 1..Len(ocontigs) :
                   \E h \in DOMAIN read_dict : RankOf(h) = i /\ ocontigs[i] = read_dict[h]
        ELSE Len(ocontigs) = Len(paths)

\* C22 witness: with no path and six reads, three of them of one length on
\* both sides of the cut, five contigs have been returned.
C22_Witness ==
    /\ opc = "done"
    /\ paths = <<>>
    /\ Cardinality(DOMAIN read_dict) > 5
    /\ Len(ocontigs) = 5
    /\ \E g, h \in DOMAIN read_dict :
          /\ RankOf(g) = 5
          /\ RankOf(h) = 6
          /\ Len(read_dict[g]) = Len(read_dict[h])

\* find_contigs is about to return: the loop over start_nodes is exhausted.
FindContigsReturning == dpc = "starts" /\ si = Len(start_nodes)

\* The condition of a start node, on the edges of the graph.
StartCondition(n) == KmerOut(n) > 0 /\ (KmerIn(n) # KmerOut(n) \/ KmerIn(n) = 0)

HasSuccessor(n) == KmerOut(n) > 0

\* The start nodes by the rule: the keys that meet the condition, in insertion
\* order, and only when there is none the first key that has a successor.
RuleStarts ==
    IF SelectSeq(graph_keys, StartCondition) # <<>>
    THEN SelectSeq(graph_keys, StartCondition)
    ELSE IF SelectSeq(graph_keys, HasSuccessor) = <<>> THEN <<>>
         ELSE <<Head(SelectSeq(graph_keys, HasSuccessor))>>

\* The nodes the walks of this call began at, in the order of the walks.
WalkStarts == [i \in 1..Len(walks) |-> walks[i][1]]

\* n was walked into by some walk of this call.
Consumed(n) == \E w \in 1..Len(walks) : \E j \in 2..Len(walks[w]) : walks[w][j] = n

NotConsumed(n) == ~Consumed(n)

\* The contigs are those of chains, each beginning with its start node, and
\* they follow the order of their start nodes.
ContigsInStartOrder ==
    /\ Len(contigs) = Len(chains)
    /\ \A i \in 1..Len(chains) : PyTo(contigs[i], k - 1) = chains[i][1]
    /\ \A i, j \in 1..Len(chains) :
          i < j => PlaceIn(start_nodes, chains[i][1]) < PlaceIn(start_nodes, chains[j][1])

\* C23 as stated: the walks of find_contigs begin exactly at the nodes with
\* out-degree > 0 and (in-degree # out-degree or in-degree = 0), in insertion
\* order, or at the single fallback node when there is none, and the contigs
\* are output in the order of their start nodes.
C23_WalkFromEveryStart ==
    FindContigsReturning =>
        /\ start_nodes = RuleStarts
        /\ WalkStarts = start_nodes
        /\ ContigsInStartOrder

\* C23 amended: the start nodes are selected by that rule, and a walk begins at
\* each of them, in that order, except at those an earlier walk has already
\* walked into; the contigs are output in the order of their start nodes.
C23_WalkFromUnconsumedStarts ==
    /\ dpc \in {"starts", "walk"} => start_nodes = RuleStarts
    /\ FindContigsReturning =>
          /\ WalkStarts = SelectSeq(start_nodes, NotConsumed)
          /\ ContigsInStartOrder

\* C23 witness: find_contigs is returning a contig after it has passed over a
\* selected start node that an earlier walk had walked into.
C23_Witness ==
    /\ FindContigsReturning
    /\ Len(contigs) >= 1
    /\ \E i \in 1..Len(start_nodes) : Consumed(start_nodes[i])

\* The forward step open to a walk standing on u with the nodes vis visited:
\* u has a single successor, whose in-degree is 1 and which is not visited.
OpenStep(u, vis) ==
    /\ KmerOut(u) = 1
    /\ KmerIn(graph[u][1]) = 1
    /\ graph[u][1] \notin vis

\* c is a non-branching chain: every node after the first is the only
\* successor of the node before it and has in-degree 1, and no node is twice
\* in it.
NonBranching(c) ==
    /\ NoDuplicates(c)
    /\ \A j \in 2..Len(c) : graph[c[j - 1]] = <<c[j]>> /\ KmerIn(c[j]) = 1

\* The sequence spelled by the chain c: its first node, then the last
\* character of every later node.
Spelled(c) == c[1] \o [j \in 1..(Len(c) - 1) |-> Last(c[j + 1])]

\* C24: a walk steps from u to v only when v is the only successor of u, has
\* in-degree 1 and is not yet visited, and then appends only the last
\* character of v; it stops exactly when no such step is open, and the chain
\* it has walked is then a non-branching chain that spells its contig.
C24_WalksAreMaximalChains ==
    [][dpc = "walk" =>
          IF OpenStep(current, visited \cup {current})
          THEN /\ dpc' = "walk"
               /\ current' = graph[current][1]
               /\ chain' = Append(chain, current')
               /\ Flatten(path') = Flatten(path) \o <<Last(current')>>
          ELSE /\ dpc' = "starts"
               /\ walks' = Append(walks, chain)
               /\ NonBranching(chain)
               /\ Flatten(path) = Spelled(chain)
               /\ Len(Spelled(chain)) >= k => Last(contigs') = Spelled(chain)]_vars

\* C24 witness: a walk of two nodes has stopped before a successor that has
\* a second incoming edge.
C24_Witness ==
    /\ dpc = "starts"
    /\ \E w \in 1..Len(walks) :
          /\ Len(walks[w]) >= 2
          /\ KmerOut(Last(walks[w])) = 1
          /\ KmerIn(graph[Last(walks[w])][1]) > 1

\* The windows of length k of the reads given to build_graph that hold only
\* A, C, G, T.
CleanWindows ==
    {w \in UNION {{SubSeq(seq, i, i + k - 1) : i \in 1..(Len(seq) - k + 1)} : seq \in all_reads} :
        Range(w) \subseteq ACGT}

\* C25: every window of length k that holds only A, C, G, T has its edge
\* prefix -> suffix in the graph, whatever the other windows of its read hold,
\* and the graph has no node and no edge but those of such windows: windows
\* with another character and reads shorter than k add nothing.
C25_WindowGranularity ==
    dpc # "unused" =>
        /\ \A w \in CleanWindows :
              /\ SubSeq(w, 1, k - 1) \in DOMAIN graph
              /\ Contains(graph[SubSeq(w, 1, k - 1)], SubSeq(w, 2, k))
        /\ \A n \in GraphNodes :
              \E w \in CleanWindows : n \in {SubSeq(w, 1, k - 1), SubSeq(w, 2, k)}
        /\ \A u \in DOMAIN graph : \A j \in 1..Len(graph[u]) :
              KmerOf(u, graph[u][j]) \in CleanWindows

\* C25 witness: a read shorter than k and a read with a non-ACGT base have
\* been given, and the graph holds exactly the one clean window of the latter.
C25_Witness ==
    /\ k = 3
    /\ all_reads = {<<"A", "C">>, <<"A", "C", "N", "C", "G", "A">>}
    /\ GraphNodes = {<<"C", "G">>, <<"G", "A">>}
    /\ Contains(graph[<<"C", "G">>], <<"G", "A">>)

\* The step is taken by find_contigs: its call from outside assemble(), or a
\* step of its loops.
InFindContigs ==
    \/ dpc = "ready" /\ dpc' = "starts" /\ ~assembling'
    \/ dpc \in {"starts", "walk"} /\ dpc' \in {"starts", "walk"}

\* C26: find_contigs leaves the graph mapping (its keys and every successor
\* list) and the in-degree and out-degree maps as they were, so the GFA export
\* of the graph is the same before and after it.
C26_FindContigsLeavesGraph ==
    [][InFindContigs =>
          /\ graph_keys' = graph_keys
          /\ graph' = graph
          /\ in_degree' = in_degree
          /\ out_degree' = out_degree
          /\ write_gfa(graph_keys', graph') = write_gfa(graph_keys, graph)]_vars

\* The chains walked in this call of find_contigs: those of the finished
\* walks and the one of the walk in progress.
AllWalks == IF dpc = "walk" THEN Append(walks, chain) ELSE walks

\* C27: within one call of find_contigs no node is in the chains of two
\* walks, so in those of two emitted contigs, no node is twice in one chain,
\* and no walk starts at a node that another walk has walked into.
C27_NodesConsumedOnce ==
    dpc \in {"starts", "walk"} =>
        /\ \A i, j \in 1..Len(AllWalks) :
              i # j => Range(AllWalks[i]) \cap Range(AllWalks[j]) = {}
        /\ \A i \in 1..Len(AllWalks) : NoDuplicates(AllWalks[i])
        /\ \A i \in 1..Len(chains) : \E w \in 1..Len(walks) : chains[i] = walks[w]
        /\ Len(contigs) = Len(chains)
        /\ \A i, j \in 1..Len(chains) :
              i # j => Range(chains[i]) \cap Range(chains[j]) = {}
        /\ \A i \in 1..Len(AllWalks) :
              \A j \in 1..Len(AllWalks) : \A m \in 2..Len(AllWalks[j]) :
                  AllWalks[j][m] # AllWalks[i][1]

\* C27 witness: two walks have finished and a selected start node, walked
\* into by one of them, has been passed over.
C27_Witness ==
    /\ dpc = "starts"
    /\ Len(walks) >= 2
    /\ \E i \in 1..si : Consumed(start_nodes[i])

\* The edges u -> v of the graph with out-degree(u) = 1 and in-degree(v) = 1.
SimpleEdges ==
    {e \in UNION {{<<u, graph[u][j]>> : j \in 1..Len(graph[u])} : u \in DOMAIN graph} :
        KmerOut(e[1]) = 1 /\ KmerIn(e[2]) = 1}

WellFormed(p) ==
    /\ Len(p) >= 2
    /\ NoDuplicates(p)
    /\ \A i \in 1..(Len(p) - 1) :
          /\ <<p[i], p[i + 1]>> \in Edges(oadj)
          /\ <<p[i], p[i + 1]>> \in DOMAIN weight

FindContigsRunning == dpc \in {"starts", "walk"}

\* C30: find_contigs terminates on every k-mer graph, those made only of
\* cycles included; the chain of a walk holds no node twice, so a walk takes
\* no more steps than the graph has nodes, and there are no more walks than
\* start nodes.
C30_FindContigsTerminates ==
    /\ [](FindContigsRunning => <>(dpc = "ready"))
    /\ [](FindContigsRunning =>
             /\ NoDuplicates(chain)
             /\ Range(chain) \subseteq GraphNodes
             /\ Len(chain) <= Cardinality(GraphNodes)
             /\ Len(AllWalks) <= Len(start_nodes)
             /\ si <= Len(start_nodes))

\* C30 witness: find_contigs is returning on a graph made only of a cycle,
\* after one walk from the fallback start that went through every node.
C30_Witness ==
    /\ FindContigsReturning
    /\ Cardinality(GraphNodes) >= 2
    /\ \A n \in GraphNodes : KmerIn(n) = 1 /\ KmerOut(n) = 1
    /\ Len(walks) = 1
    /\ Len(walks[1]) = Cardinality(GraphNodes)

====
